---- MODULE Spec2Model ----
(***************************************************************************)
(* Event decoding and dispatch core of the CwMcuSensor sensor-hub driver   *)
(* (sensor_hub/libsensors/CwMcuSensor.cpp): the dispatch loop readEvents,  *)
(* the record decoder processEvent, the control operations setEnable,      *)
(* batch, flush, setDelay, sync_timestamp and the timestamp handshake.     *)
(*                                                                         *)
(* CwMcuSensor.h, sensors.h and InputEventReader.cpp are not part of the   *)
(* source tree at hand: the numeric values of the sensor-kind tags and of  *)
(* the framework handles, and the ring buffer of the frame reader, are     *)
(* taken from the written specification (a kind is a small integer used as *)
(* bit position and table index; fill/readEvent/next are a FIFO).          *)
(***************************************************************************)
EXTENDS Integers, Sequences, FiniteSets, TLC

(***************************************************************************)
(* Bounds of the model.                                                    *)
(***************************************************************************)
\* capacity of the frame reader's ring buffer (IIO_MAX_BUFF_SIZE records)
MaxBuf == 2
\* largest count a caller passes to readEvents
MaxCount == 2
\* host clock values getTimestamp() returns: 0..MaxTime
MaxTime == 1
\* successful sync requests recorded in the history syncReqs
MaxSync == 2

(***************************************************************************)
(* Program constants.                                                      *)
(***************************************************************************)
SYNC_ACK_MAGIC == 102
EXHAUSTED_MAGIC == 119
LIGHTSENSOR_LEVEL == 10
EINVAL == 22
EIO == 5
ENOENT == 2
\* find_handle's default result, 0xFF
HANDLE_NONE == 255
\* find_sensor's default result
WHAT_NONE == -1

(***************************************************************************)
(* SensorKind tags (CW_SENSORS_ID).                                        *)
(***************************************************************************)
CW_ACCELERATION == 0
CW_MAGNETIC == 1
CW_GYRO == 2
CW_LIGHT == 3
CW_PRESSURE == 5
CW_ORIENTATION == 6
CW_ROTATIONVECTOR == 7
CW_LINEARACCELERATION == 8
CW_GRAVITY == 9
HTC_WAKE_UP_GESTURE == 10
CW_MAGNETIC_UNCALIBRATED == 16
CW_GYROSCOPE_UNCALIBRATED == 17
CW_GAME_ROTATION_VECTOR == 18
CW_GEOMAGNETIC_ROTATION_VECTOR == 19
CW_SIGNIFICANT_MOTION == 20
CW_STEP_DETECTOR == 21
CW_STEP_COUNTER == 22
CW_SENSORS_ID_END == 24
numSensors == 24
TIME_DIFF_EXHAUSTED == 25
CW_SYNC_ACK == 26
CW_META_DATA == 27
\* kinds that carry a sample
SampleKinds ==
    { CW_ACCELERATION, CW_MAGNETIC, CW_GYRO, CW_LIGHT, CW_PRESSURE,
      CW_ORIENTATION, CW_ROTATIONVECTOR, CW_LINEARACCELERATION, CW_GRAVITY,
      HTC_WAKE_UP_GESTURE, CW_MAGNETIC_UNCALIBRATED,
      CW_GYROSCOPE_UNCALIBRATED, CW_GAME_ROTATION_VECTOR,
      CW_GEOMAGNETIC_ROTATION_VECTOR, CW_SIGNIFICANT_MOTION,
      CW_STEP_DETECTOR, CW_STEP_COUNTER }

\* the closed enumeration: one table slot and one mask bit per kind
SensorKind == SampleKinds \cup { TIME_DIFF_EXHAUSTED, CW_SYNC_ACK, CW_META_DATA }

(***************************************************************************)
(* Framework handles (sensors.h).                                          *)
(***************************************************************************)
ID_A == 0
ID_M == 1
ID_GY == 2
ID_L == 3
ID_PS == 4
ID_O == 5
ID_RV == 6
ID_LA == 7
ID_G == 8
ID_CW_MAGNETIC_UNCALIBRATED == 9
ID_CW_GYROSCOPE_UNCALIBRATED == 10
ID_CW_GAME_ROTATION_VECTOR == 11
ID_CW_GEOMAGNETIC_ROTATION_VECTOR == 12
ID_CW_SIGNIFICANT_MOTION == 13
ID_CW_STEP_DETECTOR == 14
ID_CW_STEP_COUNTER == 15
ID_WAKE_UP_GESTURE == 16
\* a handle no sensor has
ID_INVALID == 40

Handles ==
    { ID_A, ID_M, ID_GY, ID_L, ID_PS, ID_O, ID_RV, ID_LA, ID_G,
      ID_CW_MAGNETIC_UNCALIBRATED, ID_CW_GYROSCOPE_UNCALIBRATED,
      ID_CW_GAME_ROTATION_VECTOR, ID_CW_GEOMAGNETIC_ROTATION_VECTOR,
      ID_CW_SIGNIFICANT_MOTION, ID_CW_STEP_DETECTOR, ID_CW_STEP_COUNTER,
      ID_WAKE_UP_GESTURE }

(***************************************************************************)
(* find_handle: SensorKind -> handle, 0xFF when the switch has no case.    *)
(***************************************************************************)
find_handle(sensors_id) ==
    CASE sensors_id = CW_ACCELERATION -> ID_A
      [] sensors_id = CW_MAGNETIC -> ID_M
      [] sensors_id = CW_GYRO -> ID_GY
      [] sensors_id = CW_PRESSURE -> ID_PS
      [] sensors_id = CW_ORIENTATION -> ID_O
      [] sensors_id = CW_ROTATIONVECTOR -> ID_RV
      [] sensors_id = CW_LINEARACCELERATION -> ID_LA
      [] sensors_id = CW_GRAVITY -> ID_G
      [] sensors_id = CW_MAGNETIC_UNCALIBRATED -> ID_CW_MAGNETIC_UNCALIBRATED
      [] sensors_id = CW_GYROSCOPE_UNCALIBRATED -> ID_CW_GYROSCOPE_UNCALIBRATED
      [] sensors_id = CW_GAME_ROTATION_VECTOR -> ID_CW_GAME_ROTATION_VECTOR
      [] sensors_id = CW_GEOMAGNETIC_ROTATION_VECTOR -> ID_CW_GEOMAGNETIC_ROTATION_VECTOR
      [] sensors_id = CW_LIGHT -> ID_L
      [] sensors_id = CW_STEP_DETECTOR -> ID_CW_STEP_DETECTOR
      [] sensors_id = CW_STEP_COUNTER -> ID_CW_STEP_COUNTER
      [] sensors_id = HTC_WAKE_UP_GESTURE -> ID_WAKE_UP_GESTURE
      [] OTHER -> HANDLE_NONE

(***************************************************************************)
(* find_sensor: handle -> SensorKind, -1 when the switch has no case.      *)
(***************************************************************************)
find_sensor(handle) ==
    CASE handle = ID_A -> CW_ACCELERATION
      [] handle = ID_M -> CW_MAGNETIC
      [] handle = ID_GY -> CW_GYRO
      [] handle = ID_PS -> CW_PRESSURE
      [] handle = ID_O -> CW_ORIENTATION
      [] handle = ID_RV -> CW_ROTATIONVECTOR
      [] handle = ID_LA -> CW_LINEARACCELERATION
      [] handle = ID_G -> CW_GRAVITY
      [] handle = ID_CW_MAGNETIC_UNCALIBRATED -> CW_MAGNETIC_UNCALIBRATED
      [] handle = ID_CW_GYROSCOPE_UNCALIBRATED -> CW_GYROSCOPE_UNCALIBRATED
      [] handle = ID_CW_GAME_ROTATION_VECTOR -> CW_GAME_ROTATION_VECTOR
      [] handle = ID_CW_GEOMAGNETIC_ROTATION_VECTOR -> CW_GEOMAGNETIC_ROTATION_VECTOR
      [] handle = ID_CW_SIGNIFICANT_MOTION -> CW_SIGNIFICANT_MOTION
      [] handle = ID_CW_STEP_DETECTOR -> CW_STEP_DETECTOR
      [] handle = ID_CW_STEP_COUNTER -> CW_STEP_COUNTER
      [] handle = ID_L -> CW_LIGHT
      [] handle = ID_WAKE_UP_GESTURE -> HTC_WAKE_UP_GESTURE
      [] OTHER -> WHAT_NONE

\* uint32_t(what) >= numSensors (setEnable, setDelay)
BadWhat(what) == what < 0 \/ what >= numSensors

\* uint32_t(what) >= CW_SENSORS_ID_END (batch, flush)
BadWhatEnd(what) == what < 0 \/ what >= CW_SENSORS_ID_END

(***************************************************************************)
(* Values of the data union of a sensors_event_t.  A float is kept as an   *)
(* integer number of 1/10000ths.  data is a function from the words        *)
(* written since construction (1 is data[0], ...) to their values: a word  *)
(* outside its domain is indeterminate.  The member status shares its      *)
(* storage with data[3], the members u64.step_counter and meta_data with   *)
(* data[0] and data[1]: each member is a tagged value of the word it       *)
(* occupies.                                                               *)
(***************************************************************************)
F(n) == <<"f", n>>
StatusByte(n) == <<"status", n>>
I32(n) == <<"i32", n>>
U64Lo(n) == <<"u64lo", n>>
U64Hi(n) == <<"u64hi", n>>
NoWords == << >>
\* data with word i written
Store(data, i, v) == (i :> v) @@ data
\* an integer member never written since construction
INDET_INT == -1

\* scale factors, in 1/10000ths
CONVERT_10 == 1000
CONVERT_100 == 100
CONVERT_10000 == 1

SENSOR_STATUS_ACCURACY_HIGH == 3
META_DATA_FLUSH_COMPLETE == 1

\* (int8_t) of an int16
Int8(x) == ((x + 128) % 256) - 128

\* the low and the high half of a 32-bit word read from two int16
U16(x) == x % 65536
AsInt32(lo, hi) == U16(lo) + hi * 65536
AsUint32_low_half(lo, hi) == U16(lo)

AsUint32(lo, hi) == U16(lo) + U16(hi) * 65536

(***************************************************************************)
(* A raw record: tag byte, three primary int16, three bias int16 and the   *)
(* device timestamp.                                                       *)
(***************************************************************************)
DevTime == 1000

Rec(tag, d0, d1, d2, b0) ==
    [ tag |-> tag, data |-> <<d0, d1, d2>>, bias |-> <<b0, 0, 0>>, time |-> DevTime ]

Rec1(tag, d0) == Rec(tag, d0, 0, 0, 0)

(***************************************************************************)
(* indexToValue: the lux table, clamped at its last entry.                 *)
(***************************************************************************)
luxValues == << 0, 10, 40, 90, 160, 225, 320, 640, 1280, 2600 >>

\* int16 -> size_t: a negative value wraps to one above every table index
ToSizeT(x) == IF x < 0 THEN x + 1073741824 ELSE x

indexToValue_wraps_to_first(index) ==
    LET maxIndex == LIGHTSENSOR_LEVEL - 1
        i == IF index > maxIndex THEN 0 ELSE index
    IN  F(luxValues[i + 1] * 10000)

indexToValue(index) ==
    LET maxIndex == LIGHTSENSOR_LEVEL - 1
        i == IF index > maxIndex THEN maxIndex ELSE index
    IN  F(luxValues[i + 1] * 10000)

(***************************************************************************)
(* The state table after construction.                                     *)
(***************************************************************************)
SensorType(k) ==
    CASE k = CW_ACCELERATION -> "ACCELEROMETER"
      [] k = CW_MAGNETIC -> "MAGNETIC_FIELD"
      [] k = CW_GYRO -> "GYROSCOPE"
      [] k = CW_LIGHT -> "LIGHT"
      [] k = CW_PRESSURE -> "PRESSURE"
      [] k = CW_ORIENTATION -> "ORIENTATION"
      [] k = CW_ROTATIONVECTOR -> "ROTATION_VECTOR"
      [] k = CW_LINEARACCELERATION -> "LINEAR_ACCELERATION"
      [] k = CW_GRAVITY -> "GRAVITY"
      [] k = CW_MAGNETIC_UNCALIBRATED -> "MAGNETIC_FIELD_UNCALIBRATED"
      [] k = CW_GYROSCOPE_UNCALIBRATED -> "GYROSCOPE_UNCALIBRATED"
      [] k = CW_GAME_ROTATION_VECTOR -> "GAME_ROTATION_VECTOR"
      [] k = CW_GEOMAGNETIC_ROTATION_VECTOR -> "GEOMAGNETIC_ROTATION_VECTOR"
      [] k = CW_SIGNIFICANT_MOTION -> "SIGNIFICANT_MOTION"
      [] k = CW_STEP_DETECTOR -> "STEP_DETECTOR"
      [] k = CW_STEP_COUNTER -> "STEP_COUNTER"
      [] k = HTC_WAKE_UP_GESTURE -> "WAKE_GESTURE"
      [] OTHER -> "indet"

\* kinds whose constructor block sets orientation.status
StatusHighKinds ==
    { CW_ORIENTATION, CW_ROTATIONVECTOR, CW_LINEARACCELERATION, CW_GRAVITY,
      CW_MAGNETIC_UNCALIBRATED, CW_GYROSCOPE_UNCALIBRATED,
      CW_GAME_ROTATION_VECTOR, CW_GEOMAGNETIC_ROTATION_VECTOR,
      CW_SIGNIFICANT_MOTION, CW_STEP_DETECTOR }

InitData(k) ==
    IF k \in { CW_LIGHT, CW_PRESSURE }
    THEN << F(0), F(0), F(0), F(0), F(0), F(0) >>
    ELSE IF k \in StatusHighKinds
    THEN Store(NoWords, 4, StatusByte(SENSOR_STATUS_ACCURACY_HIGH))
    ELSE NoWords

\* the table is an array indexed by tag: it has a slot for every index up to
\* the largest kind, the indices no kind uses included
TableSize == CW_META_DATA + 1

TableSlots == 0 .. (TableSize - 1)

\* width of the int that 1<<id is computed in
MaskBits == 32

InitPendingEvents ==
    [ k \in TableSlots |->
        [ sensor |-> IF k \in SampleKinds THEN find_handle(k) ELSE INDET_INT,
          type |-> SensorType(k),
          timestamp |-> INDET_INT,
          data |-> InitData(k) ] ]

InitPendingEventsFlush ==
    [ sensor |-> 0, type |-> "META_DATA", timestamp |-> INDET_INT, data |-> NoWords ]

(***************************************************************************)
(* The driver object.  The methods below are functions from the object's   *)
(* state (a record self of its members, the kernel's IIO buffer switch and *)
(* the history of sync commands written) to the state they leave.          *)
(*   io  : outcome of the open and the write of the attribute the method   *)
(*         addresses: "ok", "open_fail" or "write_fail"                    *)
(*   aux : whether sysfs_set_input_attr on buffer/enable, buffer/length or *)
(*         trigger/current_trigger succeeds                                *)
(*   t   : the value getTimestamp() returns                                *)
(***************************************************************************)
IOOutcomes == { "ok", "open_fail", "write_fail" }

SetData(pe, k, i, v) == [ pe EXCEPT ![k].data = Store(@, i, v) ]

SetVec3(pe, k, d, scale) ==
    SetData(SetData(SetData(pe, k, 1, F(d[1] * scale)), k, 2, F(d[2] * scale)),
            k, 3, F(d[3] * scale))

(***************************************************************************)
(* sync_timestamp_locked: write the sync code to the flush attribute and,  *)
(* when the write succeeded, record the host time as the candidate.        *)
(***************************************************************************)
sync_timestamp_locked_records_always(self, io, t) ==
    [ self EXCEPT !.l_timestamp = t, !.syncReqs = Append(@, t) ]

sync_timestamp_locked(self, io, t) ==
    IF io = "ok"
    THEN [ self EXCEPT !.l_timestamp = t, !.syncReqs = Append(@, t) ]
    ELSE self

\* sync_timestamp: the same under sys_fs_mutex
sync_timestamp(self, io, t) == sync_timestamp_locked(self, io, t)

(***************************************************************************)
(* setEnable                                                               *)
(***************************************************************************)
setEnable_clears_dirty(self, handle, en, io, aux) ==
    LET what == find_sensor(handle)
        flags == IF en # 0 THEN 1 ELSE 0
        enabled == (self.mEnabled \ {what}) \cup (IF flags = 1 THEN {what} ELSE {})
    IN  IF BadWhat(what) THEN self
        ELSE IF io = "open_fail" THEN self
        ELSE [ self EXCEPT
                 !.mEnabled = enabled,
                 !.mPendingMask = IF flags = 1 THEN @ ELSE @ \ {what},
                 !.bufferEnable = IF enabled = {} /\ aux THEN FALSE ELSE @ ]

setEnable_unchecked(self, handle, en, io, aux) ==
    LET what == find_sensor(handle)
        flags == IF en # 0 THEN 1 ELSE 0
        enabled == (self.mEnabled \ {what}) \cup (IF flags = 1 THEN {what} ELSE {})
    IN  IF io = "open_fail" THEN self
        ELSE [ self EXCEPT
                 !.mEnabled = enabled,
                 !.bufferEnable = IF enabled = {} /\ aux THEN FALSE ELSE @ ]

setEnable(self, handle, en, io, aux) ==
    LET what == find_sensor(handle)
        flags == IF en # 0 THEN 1 ELSE 0
        enabled == (self.mEnabled \ {what}) \cup (IF flags = 1 THEN {what} ELSE {})
    IN  IF BadWhat(what) THEN self
        ELSE IF io = "open_fail" THEN self
        ELSE [ self EXCEPT
                 !.mEnabled = enabled,
                 !.bufferEnable = IF enabled = {} /\ aux THEN FALSE ELSE @ ]

(***************************************************************************)
(* processEvent: decode one 24-byte record into the state table.           *)
(***************************************************************************)
\* case CW_META_DATA
OnMetaData(self, data) ==
    [ self EXCEPT
        !.mPendingEventsFlush.data =
            Store(Store(@, 1, I32(META_DATA_FLUSH_COMPLETE)), 2, I32(find_handle(data[1]))) ]

OnSyncAck_any_value(self, event) ==
    [ self EXCEPT !.g_timestamp = self.l_timestamp ]

OnSyncAck_commits_record_time(self, event) ==
    IF event.data[1] = SYNC_ACK_MAGIC
    THEN [ self EXCEPT !.g_timestamp = event.time ]
    ELSE self

\* case CW_SYNC_ACK
OnSyncAck(self, event) ==
    IF event.data[1] = SYNC_ACK_MAGIC
    THEN [ self EXCEPT !.g_timestamp = self.l_timestamp ]
    ELSE self

OnTimeDiffExhausted_any_value(self, data, io, t) == sync_timestamp(self, io, t)

OnTimeDiffExhausted_ignored(self, data, io, t) == self

\* case TIME_DIFF_EXHAUSTED
OnTimeDiffExhausted(self, data, io, t) ==
    IF data[1] = EXHAUSTED_MAGIC
    THEN sync_timestamp(self, io, t)
    ELSE self

\* mPendingEvents[i].timestamp = v.  With i outside the array the store is
\* out of bounds: it is recorded in wild, and lands on the member next to
\* the table or on memory that is no member, as the build lays them out.
SlotTimestamp(self, i, v) ==
    IF i \in DOMAIN self.mPendingEvents
    THEN [ self EXCEPT !.mPendingEvents[i].timestamp = v ]
    ELSE [ self EXCEPT !.wild = @ \cup {i},
                       !.mPendingEventsFlush.timestamp =
                            IF self.build.wildHits THEN v ELSE @ ]

processEvent(self, event, io, t) ==
    LET sensorsid == event.tag
        data == event.data
        bias == event.bias
        pe0 == SlotTimestamp(self, sensorsid, event.time).mPendingEvents
        s0 == SlotTimestamp(self, sensorsid, event.time)
        dirty == self.mPendingMask \cup {sensorsid}
    IN  CASE sensorsid = CW_ORIENTATION ->
               [ s0 EXCEPT
                   !.mPendingMask = dirty,
                   !.mPendingEvents =
                       SetVec3(SetData(pe0, sensorsid, 4, StatusByte(Int8(bias[1]))),
                               sensorsid, data, CONVERT_10) ]
          [] sensorsid \in { CW_ACCELERATION, CW_GYRO, CW_LINEARACCELERATION, CW_GRAVITY } ->
               [ s0 EXCEPT
                   !.mPendingMask = dirty,
                   !.mPendingEvents = SetVec3(pe0, sensorsid, data, CONVERT_100) ]
          [] sensorsid = CW_MAGNETIC ->
               [ s0 EXCEPT
                   !.mPendingMask = dirty,
                   !.mPendingEvents =
                       SetVec3(SetData(pe0, sensorsid, 4, StatusByte(Int8(bias[1]))),
                               sensorsid, data, CONVERT_100) ]
          [] sensorsid = CW_PRESSURE ->
               [ s0 EXCEPT
                   !.mPendingMask = dirty,
                   !.mPendingEvents =
                       SetData(SetData(pe0, sensorsid, 1,
                                       F(AsInt32(data[1], data[2]) * CONVERT_100)),
                               sensorsid, 3, F(data[3] * CONVERT_100)) ]
          [] sensorsid \in { CW_ROTATIONVECTOR, CW_GAME_ROTATION_VECTOR,
                             CW_GEOMAGNETIC_ROTATION_VECTOR } ->
               [ s0 EXCEPT
                   !.mPendingMask = dirty,
                   !.mPendingEvents = SetVec3(pe0, sensorsid, data, CONVERT_10000) ]
          [] sensorsid \in { CW_MAGNETIC_UNCALIBRATED, CW_GYROSCOPE_UNCALIBRATED } ->
               [ s0 EXCEPT
                   !.mPendingMask = dirty,
                   !.mPendingEvents =
                       SetData(SetData(SetData(SetVec3(pe0, sensorsid, data, CONVERT_100),
                           sensorsid, 4, F(bias[1] * CONVERT_100)),
                           sensorsid, 5, F(bias[2] * CONVERT_100)),
                           sensorsid, 6, F(bias[3] * CONVERT_100)) ]
          [] sensorsid = CW_SIGNIFICANT_MOTION ->
               [ s0 EXCEPT
                   !.mPendingMask = dirty,
                   !.mPendingEvents = SetVec3(pe0, sensorsid, data, 10000) ]
          [] sensorsid = CW_LIGHT ->
               [ s0 EXCEPT
                   !.mPendingMask = dirty,
                   !.mPendingEvents =
                       SetData(pe0, sensorsid, 1, indexToValue(ToSizeT(data[1]))) ]
          [] sensorsid = CW_STEP_DETECTOR ->
               [ s0 EXCEPT
                   !.mPendingMask = dirty,
                   !.mPendingEvents =
                       [ SetData(pe0, CW_STEP_COUNTER, 1, F(data[1] * 10000))
                           EXCEPT ![CW_STEP_DETECTOR].timestamp = t ] ]
          [] sensorsid = CW_STEP_COUNTER ->
               [ s0 EXCEPT
                   !.mPendingMask = dirty,
                   !.mPendingEvents =
                       SetData(SetData(pe0, CW_STEP_COUNTER, 1,
                                       U64Lo(AsUint32(data[1], data[2]))),
                               CW_STEP_COUNTER, 2, U64Hi(0)) ]
          [] sensorsid = HTC_WAKE_UP_GESTURE ->
               [ s0 EXCEPT
                   !.mPendingMask = dirty,
                   !.mPendingEvents = SetData(pe0, HTC_WAKE_UP_GESTURE, 1, F(10000)) ]
          [] sensorsid = CW_META_DATA -> OnMetaData(s0, data)
          [] sensorsid = CW_SYNC_ACK -> OnSyncAck(s0, event)
          [] sensorsid = TIME_DIFF_EXHAUSTED -> OnTimeDiffExhausted(s0, data, io, t)
          [] OTHER -> s0

(***************************************************************************)
(* calculate_rv_4th_element                                                *)
(***************************************************************************)
RECURSIVE ISqrtIn(_, _, _)
\* the largest r in lo..hi with r*r <= n (lo*lo <= n)
ISqrtIn(lo, hi, n) ==
    IF lo >= hi THEN lo
    ELSE LET mid == (lo + hi + 1) \div 2
         IN  IF mid * mid <= n THEN ISqrtIn(mid, hi, n) ELSE ISqrtIn(lo, mid - 1, n)

\* sqrt of a value given in 1/10000ths^2, in 1/10000ths
Sqrt(n) == ISqrtIn(0, 10000, n)

calculate_rv_4th_element_of_rv(self, sensors_id) ==
    IF sensors_id \in { CW_ROTATIONVECTOR, CW_GAME_ROTATION_VECTOR,
                        CW_GEOMAGNETIC_ROTATION_VECTOR }
    THEN LET q1 == self.mPendingEvents[sensors_id].data[1][2]
             q2 == self.mPendingEvents[sensors_id].data[2][2]
             q3 == self.mPendingEvents[sensors_id].data[3][2]
             q0 == 100000000 - q1 * q1 - q2 * q2 - q3 * q3
         IN  [ self EXCEPT !.mPendingEvents =
                   SetData(@, CW_ROTATIONVECTOR, 4, F(IF q0 > 0 THEN Sqrt(q0) ELSE 0)) ]
    ELSE self

calculate_rv_4th_element_root_of_magnitude(self, sensors_id) ==
    IF sensors_id \in { CW_ROTATIONVECTOR, CW_GAME_ROTATION_VECTOR,
                        CW_GEOMAGNETIC_ROTATION_VECTOR }
    THEN LET q1 == self.mPendingEvents[sensors_id].data[1][2]
             q2 == self.mPendingEvents[sensors_id].data[2][2]
             q3 == self.mPendingEvents[sensors_id].data[3][2]
             q0 == 100000000 - q1 * q1 - q2 * q2 - q3 * q3
         IN  [ self EXCEPT !.mPendingEvents =
                   SetData(@, sensors_id, 4, F(IF q0 > 0 THEN Sqrt(q0) ELSE Sqrt(0 - q0))) ]
    ELSE self

calculate_rv_4th_element(self, sensors_id) ==
    IF sensors_id \in { CW_ROTATIONVECTOR, CW_GAME_ROTATION_VECTOR,
                        CW_GEOMAGNETIC_ROTATION_VECTOR }
    THEN LET q1 == self.mPendingEvents[sensors_id].data[1][2]
             q2 == self.mPendingEvents[sensors_id].data[2][2]
             q3 == self.mPendingEvents[sensors_id].data[3][2]
             q0 == 100000000 - q1 * q1 - q2 * q2 - q3 * q3
         IN  [ self EXCEPT !.mPendingEvents =
                   SetData(@, sensors_id, 4, F(IF q0 > 0 THEN Sqrt(q0) ELSE 0)) ]
    ELSE self

(***************************************************************************)
(* hasPendingEvents                                                        *)
(***************************************************************************)
hasPendingEvents(self) == self.mPendingMask # {}

(***************************************************************************)
(* batch, flush, setDelay                                                  *)
(***************************************************************************)
BatchRejects(handle, timeout) ==
    LET what == find_sensor(handle)
    IN  \/ BadWhatEnd(what)
        \/ what \in { CW_LIGHT, CW_SIGNIFICANT_MOTION } /\ timeout > 0

batch(self, handle, dryRun, timeout, ioSync, aux, auxTrig, t) ==
    IF BatchRejects(handle, timeout) \/ dryRun THEN self
    ELSE LET s1 == IF self.mEnabled = {}
                   THEN [ self EXCEPT
                            !.init_trigger_done = @ \/ auxTrig,
                            !.bufferEnable = IF aux THEN TRUE ELSE @ ]
                   ELSE self
         IN  sync_timestamp_locked(s1, ioSync, t)

flush(self, handle, io) ==
    LET what == find_sensor(handle)
        s1 == [ self EXCEPT !.mFlushSensorEnabled = handle ]
    IN  IF BadWhatEnd(what) THEN s1
        ELSE IF io = "ok" THEN [ s1 EXCEPT !.flushCmds = Append(@, what) ]
        ELSE s1

\* setDelay changes no member: it writes "<what> <ms>" to delay_ms
setDelay(self, handle, io) == self

(***************************************************************************)
(* The values the control operations return.                               *)
(***************************************************************************)
\* sync_timestamp_locked and sync_timestamp: -ENOENT when the attribute cannot
\* be opened, -EIO when the write fails
sync_timestamp_err(io) ==
    IF io = "open_fail" THEN 0 - ENOENT ELSE IF io = "write_fail" THEN 0 - EIO ELSE 0

setEnable_err(handle) == IF BadWhat(find_sensor(handle)) THEN 0 - EINVAL ELSE 0

setDelay_err(handle) == IF BadWhat(find_sensor(handle)) THEN 0 - EINVAL ELSE 0

\* errno is the error number a failed open or write of batch_enable leaves
batch_err(handle, dryRun, timeout, io, errno) ==
    IF BatchRejects(handle, timeout) THEN 0 - EINVAL
    ELSE IF dryRun THEN 0
    ELSE IF io = "ok" THEN 0 ELSE 0 - errno

flush_err(handle, io, errno) ==
    IF BadWhatEnd(find_sensor(handle)) THEN 0 - EINVAL
    ELSE CASE io = "open_fail" -> 0 - EINVAL
           [] io = "write_fail" -> 0 - errno
           [] OTHER -> 0

(***************************************************************************)
(* One iteration of the loop of readEvents on the record event at the head *)
(* of the reader: the state it leaves and whether it wrote an output event.*)
(***************************************************************************)
\* mEnabled & (1<<id).  A shift by the width of int or more is undefined:
\* the build gives 0 or shifts by id modulo the width.
BitSet(self, id) ==
    IF id < MaskBits THEN id \in self.mEnabled
    ELSE self.build.shiftWraps /\ (id % MaskBits) \in self.mEnabled

\* what a read of mPendingEvents[i] outside the array gives: whatever lies
\* there, under the timestamp just stored through the same lvalue
IndetEvent(t) ==
    [ sensor |-> INDET_INT, type |-> "indet", timestamp |-> t, data |-> NoWords ]

Emits_whatever_enabled(self, event) == TRUE

Emits_meta_when_enabled(self, event) == event.tag \in self.mEnabled

\* whether the iteration writes an output event: a flush marker always, a
\* sample when its bit is set in mEnabled (processEvent leaves mEnabled alone)
Emits(self, event) ==
    \/ event.tag = CW_META_DATA
    \/ BitSet(self, event.tag)

LoopBody_keeps_device_time(self, event, io, aux, t) ==
    LET id == event.tag
        s1 == processEvent(self, event, io, t)
    IN  IF id = CW_META_DATA THEN s1
        ELSE IF BitSet(s1, id)
             THEN LET s3 == IF id = CW_SIGNIFICANT_MOTION
                            THEN setEnable(s1, ID_CW_SIGNIFICANT_MOTION, 0, io, aux)
                            ELSE s1
                  IN  calculate_rv_4th_element(s3, id)
             ELSE s1

LoopBody(self, event, io, aux, t) ==
    LET id == event.tag
        s1 == processEvent(self, event, io, t)
    IN  IF id = CW_META_DATA THEN s1
        ELSE LET s2 == SlotTimestamp(s1, id, t)
             IN  IF BitSet(s2, id)
                 THEN LET s3 == IF id = CW_SIGNIFICANT_MOTION
                                THEN setEnable(s2, ID_CW_SIGNIFICANT_MOTION, 0, io, aux)
                                ELSE s2
                      IN  calculate_rv_4th_element(s3, id)
                 ELSE s2

\* the event *data++ receives
Emitted(self, event, io, aux, t) ==
    LET s == LoopBody(self, event, io, aux, t)
    IN  IF event.tag = CW_META_DATA THEN s.mPendingEventsFlush
        ELSE IF event.tag \in DOMAIN s.mPendingEvents THEN s.mPendingEvents[event.tag]
        ELSE IndetEvent(t)

(***************************************************************************)
(* State.                                                                  *)
(***************************************************************************)
VARIABLES
    mEnabled,             \* EnabledMask: the set of bits set
    mPendingMask,         \* DirtyMask: the set of bits set
    mPendingEvents,       \* the state table, one slot per kind
    mPendingEventsFlush,  \* the flush-complete event
    l_timestamp,          \* candidate timestamp of the last sync request
    g_timestamp,          \* synchronized timestamp
    mFlushSensorEnabled,  \* handle of the last flush call
    init_trigger_done,
    bufferEnable,         \* the kernel's IIO buffer is enabled
    syncReqs,             \* candidates of the sync commands written so far
    flushCmds,            \* kinds written to the flush attribute, unanswered
    wild,                 \* indices of the stores made outside mPendingEvents
    build,                \* what the build makes of the undefined operations
    dev,                  \* the records the device holds, not yet read by fill
    sys_fs_mutex,         \* the thread that holds the mutex, or "free"
    fixed_sysfs_path,     \* the attribute name at the end of the shared path buffer
    cpc,                  \* each thread's position in its control operation
    cop,                  \* each thread's control operation
    lastWrite,            \* the last control write: its thread, the attribute its
                          \* operation selected and the one it was written to
    sysfs,                \* what an open and write of a control attribute does
    acks,                 \* SyncAck records with the magic decoded, up to MaxSync + 1
    syncBy,               \* who wrote the last sync command
    batched,              \* handles batch accepted since setEnable was last called
    buf,                  \* mInputReader: records filled and not yet consumed
    now,                  \* the host clock
    pc,                   \* the dispatch thread: "idle", "fill" or "loop"
    reqCount,             \* readEvents' argument count as passed
    count,                \* readEvents' remaining budget
    n,                    \* the result of fill
    numEventReceived,
    out,                  \* the events written to the caller's array
    ret                   \* the result of the last readEvents call

obj == << mEnabled, mPendingMask, mPendingEvents, mPendingEventsFlush, l_timestamp,
          g_timestamp, mFlushSensorEnabled, init_trigger_done, bufferEnable,
          syncReqs, flushCmds, wild >>

call == << pc, reqCount, count, n, numEventReceived, out, ret >>

env == << sysfs, now, build, dev >>

ctl == << sys_fs_mutex, fixed_sysfs_path, cpc, cop, lastWrite >>

hist == << acks, syncBy, batched >>

vars == << obj, hist, buf, env, call, ctl >>

This ==
    [ mEnabled |-> mEnabled, mPendingMask |-> mPendingMask,
      mPendingEvents |-> mPendingEvents, mPendingEventsFlush |-> mPendingEventsFlush,
      l_timestamp |-> l_timestamp, g_timestamp |-> g_timestamp,
      mFlushSensorEnabled |-> mFlushSensorEnabled,
      init_trigger_done |-> init_trigger_done, bufferEnable |-> bufferEnable,
      syncReqs |-> syncReqs, flushCmds |-> flushCmds, wild |-> wild, build |-> build ]

Becomes(self) ==
    /\ mEnabled' = self.mEnabled
    /\ mPendingMask' = self.mPendingMask
    /\ mPendingEvents' = self.mPendingEvents
    /\ mPendingEventsFlush' = self.mPendingEventsFlush
    /\ l_timestamp' = self.l_timestamp
    /\ g_timestamp' = self.g_timestamp
    /\ mFlushSensorEnabled' = self.mFlushSensorEnabled
    /\ init_trigger_done' = self.init_trigger_done
    /\ bufferEnable' = self.bufferEnable
    /\ syncReqs' = self.syncReqs
    /\ flushCmds' = self.flushCmds
    /\ wild' = self.wild

(***************************************************************************)
(* The state after construction.  The constructor opens the device, sets   *)
(* the trigger and the buffer switch (either may fail) and calls           *)
(* setEnable(0, 1); mPendingMask is not initialized.                       *)
(***************************************************************************)
CtorState(io, aux, auxTrig) ==
    setEnable([ mEnabled |-> {}, mPendingMask |-> {},
                mPendingEvents |-> InitPendingEvents,
                mPendingEventsFlush |-> InitPendingEventsFlush,
                l_timestamp |-> 0, g_timestamp |-> 0,
                mFlushSensorEnabled |-> 0 - 1,
                init_trigger_done |-> auxTrig, bufferEnable |-> aux,
                syncReqs |-> << >>, flushCmds |-> << >>, wild |-> {} ],
              0, 1, io, TRUE)

\* values the uninitialized mPendingMask may hold
InitMasks == { {}, { CW_GYRO } }

Starts(self) ==
    /\ mEnabled = self.mEnabled
    /\ mPendingEvents = self.mPendingEvents
    /\ mPendingEventsFlush = self.mPendingEventsFlush
    /\ l_timestamp = self.l_timestamp
    /\ g_timestamp = self.g_timestamp
    /\ mFlushSensorEnabled = self.mFlushSensorEnabled
    /\ init_trigger_done = self.init_trigger_done
    /\ bufferEnable = self.bufferEnable
    /\ syncReqs = self.syncReqs
    /\ flushCmds = self.flushCmds
    /\ wild = self.wild

\* a build in which a shift by 32 or more gives 0 and a store past the
\* table hits no member
PlainBuild == [ shiftWraps |-> FALSE, wildHits |-> FALSE ]

Builds == [ shiftWraps : BOOLEAN, wildHits : BOOLEAN ]

\* the threads: the dispatch thread and the framework's callers
CtlThreads == { "t1", "t2" }

Threads == CtlThreads \cup { "dispatch" }

NoOp == [ op |-> "none", handle |-> ID_INVALID, en |-> 0, i |-> 0 ]

NoWrite == [ thread |-> "none", want |-> "", got |-> "" ]

\* no thread is in a control operation; the constructor left the path
\* buffer with the attribute of its setEnable(0, 1)
InitCtl ==
    /\ sys_fs_mutex = "free"
    /\ fixed_sysfs_path = "enable"
    /\ cpc = [ t \in Threads |-> "idle" ]
    /\ cop = [ t \in Threads |-> NoOp ]
    /\ lastWrite = NoWrite

InitDev(ios, auxs, masks, builds, streams) ==
    /\ build \in builds
    /\ dev \in streams
    /\ InitCtl
    /\ \E io \in ios, aux \in auxs, auxTrig \in auxs : Starts(CtorState(io, aux, auxTrig))
    /\ mPendingMask \in masks
    /\ sysfs = "ok"
    /\ acks = 0
    /\ syncBy = "none"
    /\ batched = {}
    /\ buf = << >>
    /\ now = 0
    /\ pc = "idle"
    /\ reqCount = 0
    /\ count = 0
    /\ n = 0
    /\ numEventReceived = 0
    /\ out = << >>
    /\ ret = 0

InitBuild(ios, auxs, masks, builds) == InitDev(ios, auxs, masks, builds, { << >> })

InitWith(ios, auxs, masks) == InitBuild(ios, auxs, masks, { PlainBuild })

Init == InitWith({ "ok", "open_fail" }, { TRUE }, { {} })

(***************************************************************************)
(* The host clock.                                                         *)
(***************************************************************************)
Tick ==
    /\ now < MaxTime
    /\ now' = now + 1
    /\ UNCHANGED << ctl, obj, hist, buf, sysfs, build, dev, call >>

(***************************************************************************)
(* The control surface becomes unreadable, unwritable or usable again.     *)
(***************************************************************************)
SetSysfs(o) ==
    /\ sysfs # o
    /\ sysfs' = o
    /\ UNCHANGED << ctl, obj, hist, buf, now, build, dev, call >>

(***************************************************************************)
(* readEvents(data, count).  The call, the fill of the frame reader, one   *)
(* loop iteration per buffered record, and the return.                     *)
(***************************************************************************)
\* sequences over S of length at most k
RECURSIVE SeqsUpTo(_, _)
SeqsUpTo(S, k) ==
    IF k = 0 THEN { << >> }
    ELSE LET shorter == SeqsUpTo(S, k - 1)
         IN  shorter \cup { Append(q, x) : q \in shorter, x \in S }

ReadEventsCall(c) ==
    /\ pc = "idle"
    /\ IF c < 1
       THEN /\ ret' = 0 - EINVAL
            /\ UNCHANGED << pc, reqCount, count >>
       ELSE /\ pc' = "fill"
            /\ reqCount' = c
            /\ count' = c
            /\ ret' = ret
    /\ UNCHANGED << ctl, obj, hist, buf, env, n, numEventReceived, out >>

\* fill(data_fd) reads the records the device holds into the free space
Fill(recs) ==
    /\ pc = "fill"
    /\ Len(buf) + Len(recs) <= MaxBuf
    /\ buf' = buf \o recs
    /\ n' = Len(recs)
    /\ pc' = "loop"
    /\ UNCHANGED << ctl, obj, hist, env, reqCount, count, numEventReceived, out, ret >>

\* fill(data_fd) reads the first k records of the device's stream
FillDevice(k) ==
    /\ pc = "fill"
    /\ k \in 1 .. Len(dev)
    /\ Len(buf) + k <= MaxBuf
    /\ buf' = buf \o SubSeq(dev, 1, k)
    /\ dev' = SubSeq(dev, k + 1, Len(dev))
    /\ n' = k
    /\ pc' = "loop"
    /\ UNCHANGED << ctl, obj, hist, sysfs, now, build, reqCount, count, numEventReceived,
                    out, ret >>

FillErrorKeepsGoing(e) ==
    /\ pc = "fill"
    /\ n' = 0 - e
    /\ pc' = "loop"
    /\ UNCHANGED << ctl, obj, hist, buf, env, reqCount, count, numEventReceived, out, ret >>

\* fill fails: readEvents returns its code
FillError(e) ==
    /\ pc = "fill"
    /\ n' = 0 - e
    /\ ret' = 0 - e
    /\ pc' = "idle"
    /\ reqCount' = 0
    /\ count' = 0
    /\ UNCHANGED << ctl, obj, hist, buf, env, numEventReceived, out >>

LoopCondition_ignores_count(cnt, reader) == reader # << >>

\* while (count && mInputReader.readEvent(&event))
LoopCondition(cnt, reader) == cnt # 0 /\ reader # << >>

IsMagicExhausted(event) ==
    event.tag = TIME_DIFF_EXHAUSTED /\ event.data[1] = EXHAUSTED_MAGIC

IsMagicAck(event) == event.tag = CW_SYNC_ACK /\ event.data[1] = SYNC_ACK_MAGIC

DispatchStep(aux) ==
    /\ pc = "loop"
    /\ LoopCondition(count, buf)
    /\ LET event == Head(buf)
           s == LoopBody(This, event, sysfs, aux, now)
       IN  /\ Len(s.syncReqs) <= MaxSync
           /\ Becomes(s)
           /\ IF Emits(This, event)
              THEN /\ out' = Append(out, Emitted(This, event, sysfs, aux, now))
                   /\ count' = count - 1
                   /\ numEventReceived' = numEventReceived + 1
              ELSE UNCHANGED << out, count, numEventReceived >>
           /\ acks' = IF IsMagicAck(event) /\ acks <= MaxSync THEN acks + 1 ELSE acks
           /\ syncBy' = IF s.syncReqs # syncReqs THEN "exhausted" ELSE syncBy
           /\ batched' = batched
    /\ buf' = Tail(buf)
    /\ UNCHANGED << env, pc, reqCount, n, ret >>

\* one iteration of the loop, by the dispatch thread
DispatchRecord(aux) == DispatchStep(aux) /\ UNCHANGED ctl

\* the loop ends and readEvents returns; its locals are dead from here on
ReadEventsReturn ==
    /\ pc = "loop"
    /\ ~LoopCondition(count, buf)
    /\ ret' = numEventReceived
    /\ pc' = "idle"
    /\ reqCount' = 0
    /\ count' = 0
    /\ n' = 0
    /\ numEventReceived' = 0
    /\ out' = << >>
    /\ UNCHANGED << ctl, obj, hist, buf, env >>

(***************************************************************************)
(* The control operations, each a critical section of sys_fs_mutex.        *)
(***************************************************************************)
SetEnable(handle, en, aux) ==
    /\ Becomes(setEnable(This, handle, en, sysfs, aux))
    /\ UNCHANGED << ctl, hist, buf, env, call >>

Batch(handle, dryRun, timeout, aux, auxTrig) ==
    /\ LET s == batch(This, handle, dryRun, timeout, sysfs, aux, auxTrig, now)
       IN  /\ Len(s.syncReqs) <= MaxSync
           /\ Becomes(s)
           /\ syncBy' = IF s.syncReqs # syncReqs THEN "framework" ELSE syncBy
    /\ batched' = IF BatchRejects(handle, timeout) \/ dryRun THEN batched
                  ELSE batched \cup { handle }
    /\ UNCHANGED << ctl, acks, buf, env, call >>

Flush(handle) ==
    /\ LET s == flush(This, handle, sysfs)
       IN  Len(s.flushCmds) <= 1 /\ Becomes(s)
    /\ UNCHANGED << ctl, hist, buf, env, call >>

SyncTimestamp ==
    /\ LET s == sync_timestamp(This, sysfs, now)
       IN  /\ Len(s.syncReqs) <= MaxSync
           /\ Becomes(s)
           /\ syncBy' = IF s.syncReqs # syncReqs THEN "framework" ELSE syncBy
    /\ UNCHANGED << ctl, acks, batched, buf, env, call >>

SetDelay(handle) ==
    /\ Becomes(setDelay(This, handle, sysfs))
    /\ UNCHANGED << ctl, hist, buf, env, call >>

(***************************************************************************)
(* The dispatch specification: records of an enabled and of a one-shot     *)
(* kind and flush markers, with setEnable called from another thread.      *)
(***************************************************************************)
DispatchRecords ==
    { Rec1(CW_ACCELERATION, 1), Rec1(CW_SIGNIFICANT_MOTION, 1),
      Rec1(CW_META_DATA, CW_ACCELERATION) }

CtlHandles == { ID_A, ID_CW_SIGNIFICANT_MOTION }

FillErrors == { EIO }

Next ==
    \/ \E c \in 0 .. MaxCount : ReadEventsCall(c)
    \/ \E recs \in SeqsUpTo(DispatchRecords, MaxBuf) : Fill(recs)
    \/ \E e \in FillErrors : FillError(e)
    \/ DispatchRecord(TRUE)
    \/ ReadEventsReturn
    \/ \E h \in CtlHandles, en \in { 0, 1 } : SetEnable(h, en, TRUE)

Spec == Init /\ [][Next]_vars

\* the same with a control surface that may stop accepting opens
NextIO ==
    \/ Next
    \/ \E o \in { "ok", "open_fail" } : SetSysfs(o)

SpecIO == Init /\ [][NextIO]_vars

(***************************************************************************)
(* The sync specification: host time advances, the framework calls batch   *)
(* and the other control operations, the control surface fails and         *)
(* recovers, and the firmware sends SyncAck and TimeDiffExhausted records  *)
(* with the magic value and with another one.                              *)
(***************************************************************************)
SyncRecords ==
    { Rec1(CW_SYNC_ACK, SYNC_ACK_MAGIC), Rec1(CW_SYNC_ACK, EXHAUSTED_MAGIC),
      Rec1(TIME_DIFF_EXHAUSTED, EXHAUSTED_MAGIC), Rec1(TIME_DIFF_EXHAUSTED, SYNC_ACK_MAGIC) }

InitSync == InitWith({ "ok" }, { TRUE }, { {} })

BatchCall == Batch(ID_A, FALSE, 0, TRUE, TRUE)

NextSync ==
    \/ Tick
    \/ \E o \in IOOutcomes : SetSysfs(o)
    \/ ReadEventsCall(MaxCount)
    \/ \E r \in SyncRecords : Fill(<< r >>)
    \/ DispatchRecord(TRUE)
    \/ ReadEventsReturn
    \/ SyncTimestamp
    \/ BatchCall
    \/ SetEnable(ID_A, 1, TRUE)
    \/ SetDelay(ID_A)
    \/ Flush(ID_A)

SpecSync == InitSync /\ [][NextSync]_vars

(***************************************************************************)
(* The unknown-tag specification: records whose tag byte names no kind, in *)
(* every build, between accelerometer records.                             *)
(***************************************************************************)
\* a tag between two kinds, the first tag past the mask, the largest byte
UnknownTags == { CW_LIGHT + 1, MaskBits, 255 }

UnknownRecords == { Rec1(tag, 1) : tag \in UnknownTags } \cup { Rec1(CW_ACCELERATION, 1) }

InitUnknown == InitBuild({ "ok" }, { TRUE }, { {} }, Builds)

NextUnknown ==
    \/ \E c \in 1 .. MaxCount : ReadEventsCall(c)
    \/ \E recs \in SeqsUpTo(UnknownRecords, MaxBuf) : Fill(recs)
    \/ DispatchRecord(TRUE)
    \/ ReadEventsReturn
    \/ \E en \in { 0, 1 } : SetEnable(ID_A, en, TRUE)

SpecUnknown == InitUnknown /\ [][NextUnknown]_vars

(***************************************************************************)
(* The flush specification: the framework flushes any handle, and the      *)
(* firmware answers each flush command it was sent with a meta-data record *)
(* carrying the sensor id of the command.                                  *)
(***************************************************************************)
FillFlushReply ==
    /\ pc = "fill"
    /\ flushCmds # << >>
    /\ buf' = Append(buf, Rec1(CW_META_DATA, Head(flushCmds)))
    /\ flushCmds' = Tail(flushCmds)
    /\ n' = 1
    /\ pc' = "loop"
    /\ UNCHANGED << mEnabled, mPendingMask, mPendingEvents, mPendingEventsFlush,
                    l_timestamp, g_timestamp, mFlushSensorEnabled, init_trigger_done,
                    bufferEnable, syncReqs, wild >>
    /\ UNCHANGED << ctl, hist, env, reqCount, count, numEventReceived, out, ret >>

NextFlush ==
    \/ \E h \in Handles \cup { ID_INVALID } : Flush(h)
    \/ \E en \in { 0, 1 } : SetEnable(ID_INVALID, en, TRUE)
    \/ SetDelay(ID_INVALID)
    \/ \E dryRun \in BOOLEAN : Batch(ID_INVALID, dryRun, 0, TRUE, TRUE)
    \/ ReadEventsCall(1)
    \/ FillFlushReply
    \/ Fill(<< >>)
    \/ DispatchRecord(TRUE)
    \/ ReadEventsReturn

InitFlush == InitWith({ "ok", "open_fail" }, { TRUE }, InitMasks)

SpecFlush == InitFlush /\ [][NextFlush]_vars

(***************************************************************************)
(* The decode specification: the device holds one of a set of streams,     *)
(* covering every sample kind and the corner values of the rotation vector *)
(* and light records; the dispatch thread reads it while another thread    *)
(* enables and disables three kinds and the host clock advances.           *)
(***************************************************************************)
RvKinds == { CW_ROTATIONVECTOR, CW_GAME_ROTATION_VECTOR, CW_GEOMAGNETIC_ROTATION_VECTOR }

RvRecords ==
    { Rec(CW_ROTATIONVECTOR, 6000, 8000, 0, 0),
      Rec(CW_ROTATIONVECTOR, 10000, 10000, 0, 0),
      Rec(CW_ROTATIONVECTOR, 0 - 5000, 5000, 5000, 0),
      Rec(CW_GAME_ROTATION_VECTOR, 6000, 0, 0, 0),
      Rec(CW_GEOMAGNETIC_ROTATION_VECTOR, 0, 0, 0 - 10000, 0) }

LightRecords == { Rec1(CW_LIGHT, v) : v \in { 0, 9, 10, 0 - 1, 32767, 0 - 32768 } }

StepRecords == { Rec(CW_STEP_COUNTER, 5, 0, 0, 0), Rec(CW_STEP_COUNTER, 65535, 1, 0, 0) }

DecodeRecords ==
    { Rec(k, 1, 2, 3, 1) : k \in SampleKinds } \cup RvRecords \cup LightRecords \cup StepRecords

FollowUps ==
    { Rec(CW_ROTATIONVECTOR, 1, 2, 3, 1), Rec(CW_STEP_DETECTOR, 1, 2, 3, 1),
      Rec(CW_STEP_COUNTER, 5, 0, 0, 0) }

DecodeStreams ==
    { << r >> : r \in DecodeRecords } \cup { << r, q >> : r \in DecodeRecords, q \in FollowUps }

DecodeHandles == { ID_RV, ID_CW_GAME_ROTATION_VECTOR, ID_CW_STEP_COUNTER }

InitDecode == InitDev({ "ok" }, { TRUE }, { {} }, { PlainBuild }, DecodeStreams)

NextDecode ==
    \/ Tick
    \/ \E c \in 1 .. MaxCount : ReadEventsCall(c)
    \/ \E k \in 1 .. MaxBuf : FillDevice(k)
    \/ DispatchRecord(TRUE)
    \/ ReadEventsReturn
    \/ \E h \in DecodeHandles, en \in { 0, 1 } : SetEnable(h, en, TRUE)

SpecDecode == InitDecode /\ [][NextDecode]_vars

(***************************************************************************)
(* The lock specification: the control operations step by step.  A thread  *)
(* calls an operation, takes sys_fs_mutex, copies an attribute name into   *)
(* the shared path buffer, opens and writes the path the buffer then       *)
(* holds, and releases the mutex.  The dispatch thread does the same from  *)
(* inside its loop for the records whose handling calls sync_timestamp or  *)
(* setEnable.                                                              *)
(***************************************************************************)
\* the attributes an operation writes through the shared path buffer
Attrs(op) ==
    CASE op = "setEnable" -> << "enable" >>
      [] op = "setDelay" -> << "delay_ms" >>
      [] op = "batch" -> << "flush", "batch_enable" >>
      [] op = "flush" -> << "flush" >>
      [] op = "sync_timestamp" -> << "flush" >>

pthread_mutex_lock_no_wait(t) == sys_fs_mutex' = t

\* pthread_mutex_lock(&sys_fs_mutex) returns once the mutex is free
pthread_mutex_lock(t) == sys_fs_mutex = "free" /\ sys_fs_mutex' = t

pthread_mutex_unlock_kept(t) == sys_fs_mutex' = sys_fs_mutex

pthread_mutex_unlock(t) == sys_fs_mutex' = "free"

Op(op, handle, en) == [ op |-> op, handle |-> handle, en |-> en, i |-> 1 ]

CtlOps ==
    { Op("setEnable", h, 1) : h \in { ID_A, ID_INVALID } } \cup
    { Op(op, ID_A, 0) : op \in { "setDelay", "batch", "flush" } } \cup
    { Op("sync_timestamp", ID_INVALID, 0) }

\* threads inside one of the operations ops
InFlight(ops) == Cardinality({ t \in Threads : cpc[t] # "idle" /\ cop[t].op \in ops })

\* exhaustion records read and not yet dispatched
Exhaustions == Cardinality({ i \in DOMAIN buf : IsMagicExhausted(buf[i]) })

\* the sync commands written, being written by a framework thread and due
\* for the buffered exhaustion records stay within the bound
SyncRoom ==
    Len(syncReqs) + Exhaustions
        + Cardinality({ t \in CtlThreads :
                          cpc[t] # "idle" /\ cop[t].op \in { "batch", "sync_timestamp" } })
      < MaxSync

FlushRoom == Len(flushCmds) + InFlight({ "flush" }) < 1

\* a framework thread calls a control operation and runs it up to its
\* pthread_mutex_lock; flush stores the handle first
CallOp(t, o) ==
    /\ cpc[t] = "idle"
    /\ o.op \in { "batch", "sync_timestamp" } => SyncRoom
    /\ o.op = "flush" => FlushRoom
    /\ cpc' = [ cpc EXCEPT ![t] = "lock" ]
    /\ cop' = [ cop EXCEPT ![t] = o ]
    /\ mFlushSensorEnabled' = IF o.op = "flush" THEN o.handle ELSE mFlushSensorEnabled
    /\ UNCHANGED << mEnabled, mPendingMask, mPendingEvents, mPendingEventsFlush,
                    l_timestamp, g_timestamp, init_trigger_done, bufferEnable, syncReqs,
                    flushCmds, wild, hist, buf, env, call, sys_fs_mutex,
                    fixed_sysfs_path, lastWrite >>

Acquire(t) ==
    /\ cpc[t] = "lock"
    /\ pthread_mutex_lock(t)
    /\ cpc' = [ cpc EXCEPT ![t] = "path" ]
    /\ UNCHANGED << obj, hist, buf, env, call, fixed_sysfs_path, cop, lastWrite >>

\* setEnable and setDelay test the handle once they hold the mutex
Rejects(o) == o.op \in { "setEnable", "setDelay" } /\ BadWhat(find_sensor(o.handle))

RejectKeepsMutex(t) ==
    /\ cpc[t] = "path"
    /\ Rejects(cop[t])
    /\ cpc' = [ cpc EXCEPT ![t] = "idle" ]
    /\ cop' = [ cop EXCEPT ![t] = NoOp ]
    /\ UNCHANGED << obj, hist, buf, env, call, sys_fs_mutex, fixed_sysfs_path, lastWrite >>

\* the handle is invalid: on to the unlock and return -EINVAL
Reject(t) ==
    /\ cpc[t] = "path"
    /\ Rejects(cop[t])
    /\ cpc' = [ cpc EXCEPT ![t] = "unlock" ]
    /\ UNCHANGED << obj, hist, buf, env, call, sys_fs_mutex, fixed_sysfs_path, cop,
                    lastWrite >>

\* strcpy(&fixed_sysfs_path[fixed_sysfs_path_len], attr)
Strcpy(t) ==
    /\ cpc[t] = "path"
    /\ ~Rejects(cop[t])
    /\ fixed_sysfs_path' = Attrs(cop[t].op)[cop[t].i]
    /\ cpc' = [ cpc EXCEPT ![t] = "open" ]
    /\ UNCHANGED << obj, hist, buf, env, call, sys_fs_mutex, cop, lastWrite >>

\* what the operation has done to the object by its i-th write
OpEffect(self, o) ==
    CASE o.op = "setEnable" -> setEnable(self, o.handle, o.en, sysfs, TRUE)
      [] o.op = "setDelay" -> setDelay(self, o.handle, sysfs)
      [] o.op = "batch" ->
            IF o.i = 1 THEN batch(self, o.handle, FALSE, 0, sysfs, TRUE, TRUE, now) ELSE self
      [] o.op = "flush" ->
            [ flush(self, o.handle, sysfs) EXCEPT
                !.mFlushSensorEnabled = self.mFlushSensorEnabled ]
      [] o.op = "sync_timestamp" -> sync_timestamp(self, sysfs, now)

\* the write that open(fixed_sysfs_path) and write(fd) make for thread t
Written(t) ==
    IF sysfs = "ok"
    THEN [ thread |-> t, want |-> Attrs(cop[t].op)[cop[t].i], got |-> fixed_sysfs_path ]
    ELSE lastWrite

\* fd = open(fixed_sysfs_path, O_RDWR); write(fd, ...); close(fd)
OpenWrite(t) ==
    /\ cpc[t] = "open"
    /\ LET o == cop[t]
           s == OpEffect(This, o)
       IN  /\ Becomes(s)
           /\ syncBy' = IF s.syncReqs # syncReqs THEN "framework" ELSE syncBy
           /\ lastWrite' = Written(t)
           /\ batched' = IF o.op = "batch" /\ o.i = 1 THEN batched \cup { o.handle }
                         ELSE batched
           /\ IF o.i < Len(Attrs(o.op))
              THEN /\ cpc' = [ cpc EXCEPT ![t] = "path" ]
                   /\ cop' = [ cop EXCEPT ![t].i = o.i + 1 ]
              ELSE /\ cpc' = [ cpc EXCEPT ![t] = "unlock" ]
                   /\ cop' = cop
    /\ UNCHANGED << acks, buf, env, call, sys_fs_mutex, fixed_sysfs_path >>

Release(t) ==
    /\ cpc[t] = "unlock"
    /\ pthread_mutex_unlock(t)
    /\ cpc' = [ cpc EXCEPT ![t] = "idle" ]
    /\ cop' = [ cop EXCEPT ![t] = NoOp ]
    /\ UNCHANGED << obj, hist, buf, env, call, fixed_sysfs_path, lastWrite >>

\* the records whose handling takes the mutex: processEvent calls
\* sync_timestamp, the loop calls setEnable
NeedsMutex(self, event) ==
    \/ IsMagicExhausted(event)
    \/ event.tag = CW_SIGNIFICANT_MOTION /\ BitSet(self, event.tag)

DispatchOp(event) ==
    IF IsMagicExhausted(event) THEN Op("sync_timestamp", ID_INVALID, 0)
    ELSE Op("setEnable", ID_CW_SIGNIFICANT_MOTION, 0)

\* the loop reaches the call of the control operation
DispatchCall ==
    /\ pc = "loop"
    /\ LoopCondition(count, buf)
    /\ cpc["dispatch"] = "idle"
    /\ NeedsMutex(This, Head(buf))
    /\ cpc' = [ cpc EXCEPT !["dispatch"] = "lock" ]
    /\ cop' = [ cop EXCEPT !["dispatch"] = DispatchOp(Head(buf)) ]
    /\ UNCHANGED << obj, hist, buf, env, call, sys_fs_mutex, fixed_sysfs_path, lastWrite >>

\* the iteration's effect, at the write of its control operation
DispatchWrite ==
    /\ cpc["dispatch"] = "open"
    /\ DispatchStep(TRUE)
    /\ lastWrite' = Written("dispatch")
    /\ cpc' = [ cpc EXCEPT !["dispatch"] = "unlock" ]
    /\ UNCHANGED << sys_fs_mutex, fixed_sysfs_path, cop >>

\* an iteration that calls no control operation
DispatchPlain ==
    /\ pc = "loop"
    /\ buf # << >>
    /\ cpc["dispatch"] = "idle"
    /\ ~NeedsMutex(This, Head(buf))
    /\ DispatchRecord(TRUE)

\* the loop ends once the iteration's control operation has returned
DispatchReturn == cpc["dispatch"] = "idle" /\ ReadEventsReturn

\* fill in the lock specification: nothing when the ring buffer is full
FillLock(recs) ==
    /\ \A i \in DOMAIN recs : IsMagicExhausted(recs[i]) => SyncRoom
    /\ recs = << >> => Len(buf) = MaxBuf
    /\ Fill(recs)

LockRecords == { Rec1(TIME_DIFF_EXHAUSTED, EXHAUSTED_MAGIC), Rec1(TIME_DIFF_EXHAUSTED, 0) }

LockFills == { << >> } \cup { << r >> : r \in LockRecords }

NextLockWith(ops) ==
    \/ \E t \in CtlThreads, o \in ops : CallOp(t, o)
    \/ \E t \in Threads : Acquire(t)
    \/ \E t \in CtlThreads : Reject(t)
    \/ \E t \in Threads : Strcpy(t)
    \/ \E t \in CtlThreads : OpenWrite(t)
    \/ \E t \in Threads : Release(t)
    \/ ReadEventsCall(1)
    \/ \E recs \in LockFills : FillLock(recs)
    \/ DispatchCall
    \/ DispatchWrite
    \/ DispatchPlain
    \/ DispatchReturn

NextLock == NextLockWith(CtlOps)

InitLock == InitWith({ "ok" }, { TRUE }, { {} })

SpecLock == InitLock /\ [][NextLock]_vars

\* fair scheduling: a thread that can take a step takes it, a thread that
\* waits for the mutex gets it when it is released again and again, every
\* open and write returns, and so does the read of the device
LockFairness ==
    /\ \A t \in Threads : SF_vars(Acquire(t))
    /\ \A t \in CtlThreads : WF_vars(Reject(t))
    /\ \A t \in Threads : WF_vars(Strcpy(t))
    /\ \A t \in Threads : WF_vars(Release(t))
    /\ \A t \in CtlThreads : WF_vars(OpenWrite(t))
    /\ WF_vars(\E recs \in LockFills : FillLock(recs))
    /\ WF_vars(DispatchCall)
    /\ WF_vars(DispatchWrite)
    /\ WF_vars(DispatchPlain)
    /\ WF_vars(DispatchReturn)

\* the operations of the fair specification: batch, which makes the locked
\* sync request and a second write, setDelay, which may be called without
\* end, and a setEnable that returns -EINVAL
FairOps ==
    { Op(op, ID_A, 0) : op \in { "batch", "setDelay" } } \cup { Op("setEnable", ID_INVALID, 1) }

NextLockFair == NextLockWith(FairOps)

SpecLockFair == InitLock /\ [][NextLockFair]_vars /\ LockFairness

(***************************************************************************)
(* The dirty-mask specification: records of an enabled and of a disabled   *)
(* sample kind, flush markers and exhaustion signals are dispatched while  *)
(* the framework calls every control operation; mPendingMask starts with   *)
(* any value.                                                              *)
(***************************************************************************)
DirtyRecords ==
    { Rec1(CW_ACCELERATION, 1), Rec1(CW_GYRO, 1), Rec1(CW_META_DATA, CW_ACCELERATION),
      Rec1(TIME_DIFF_EXHAUSTED, EXHAUSTED_MAGIC) }

InitDirty == InitWith({ "ok" }, { TRUE }, InitMasks)

NextDirty ==
    \/ ReadEventsCall(1)
    \/ \E r \in DirtyRecords : Fill(<< r >>)
    \/ DispatchRecord(TRUE)
    \/ ReadEventsReturn
    \/ \E en \in { 0, 1 } : SetEnable(ID_A, en, TRUE)
    \/ SetDelay(ID_A)
    \/ BatchCall
    \/ Flush(ID_A)
    \/ SyncTimestamp

SpecDirty == InitDirty /\ [][NextDirty]_vars

(***************************************************************************)
(* The buffer specification: the framework calls batch(h) before each      *)
(* setEnable(h, 1), with no other setEnable in between; it disables        *)
(* sensors, and the dispatch loop disables SignificantMotion after its     *)
(* event.  Every write to the control surface succeeds.                    *)
(***************************************************************************)
BufHandles == { ID_A, ID_CW_SIGNIFICANT_MOTION }

\* setEnable(h, 1), called right after a batch(h)
EnableAfterBatch(h) ==
    /\ h \in batched
    /\ Becomes(setEnable(This, h, 1, sysfs, TRUE))
    /\ batched' = batched \ { h }
    /\ UNCHANGED << ctl, acks, syncBy, buf, env, call >>

\* setEnable(h, 0)
DisableCall(h) ==
    /\ Becomes(setEnable(This, h, 0, sysfs, TRUE))
    /\ batched' = {}
    /\ UNCHANGED << ctl, acks, syncBy, buf, env, call >>

NextBuffer ==
    \/ \E h \in BufHandles : Batch(h, FALSE, 0, TRUE, TRUE)
    \/ \E h \in BufHandles : EnableAfterBatch(h)
    \/ \E h \in BufHandles : DisableCall(h)
    \/ ReadEventsCall(1)
    \/ Fill(<< Rec1(CW_SIGNIFICANT_MOTION, 1) >>)
    \/ DispatchRecord(TRUE)
    \/ ReadEventsReturn

InitBuffer == InitWith({ "ok" }, { TRUE }, { {} })

SpecBuffer == InitBuffer /\ [][NextBuffer]_vars

(***************************************************************************)
(* The mask specification: setEnable is called with handles of sensors,    *)
(* with the invalid handle and with the tags of the protocol's own kinds   *)
(* as handles, while SyncAck and TimeDiffExhausted records are dispatched. *)
(***************************************************************************)
PseudoKinds == { TIME_DIFF_EXHAUSTED, CW_SYNC_ACK, CW_META_DATA }

MaskHandles == { ID_A, ID_CW_STEP_COUNTER, ID_INVALID } \cup PseudoKinds

MaskRecords ==
    { Rec1(CW_SYNC_ACK, SYNC_ACK_MAGIC), Rec1(TIME_DIFF_EXHAUSTED, EXHAUSTED_MAGIC),
      Rec1(TIME_DIFF_EXHAUSTED, 0), Rec1(CW_STEP_COUNTER, 1) }

NextMask ==
    \/ \E h \in MaskHandles, en \in { 0, 1 } : SetEnable(h, en, TRUE)
    \/ \E c \in 1 .. MaxCount : ReadEventsCall(c)
    \/ \E r \in MaskRecords : Fill(<< r >>)
    \/ DispatchRecord(TRUE)
    \/ ReadEventsReturn

InitMask == InitWith({ "ok" }, { TRUE }, { {} })

SpecMask == InitMask /\ [][NextMask]_vars

(***************************************************************************)
(* Properties of the dispatch loop.                                        *)
(***************************************************************************)
IsPrefix(p, q) == Len(p) <= Len(q) /\ SubSeq(q, 1, Len(p)) = p

\* this step is a loop iteration of readEvents: it commits the head record
Dispatching == pc = "loop" /\ buf # << >> /\ buf' = Tail(buf)

LastOut == out[Len(out)]

\* C1: readEvents(count) writes at most count events, consumes records only
\* while budget remains, one at a time from the head, and returns the number
\* written; every record it did not consume stays queued, in order: the
\* reader changes only by the loop popping its head or by fill appending,
\* and the table and the output change only in a step that pops the head.
C1_BudgetAndQueue ==
    /\ [](pc = "loop" =>
            /\ numEventReceived = Len(out)
            /\ count >= 0
            /\ count + numEventReceived = reqCount)
    /\ [][ /\ buf' # buf =>
                \/ pc = "loop" /\ count > 0 /\ buf # << >> /\ buf' = Tail(buf)
                \/ pc = "fill" /\ IsPrefix(buf, buf')
           /\ << out, mPendingEvents, mPendingMask, mPendingEventsFlush >>'
                  # << out, mPendingEvents, mPendingMask, mPendingEventsFlush >>
                => out' = << >> \/ Dispatching
           /\ (pc = "loop" /\ pc' = "idle") =>
                /\ ret' = numEventReceived
                /\ ret' <= reqCount
                /\ count = 0 \/ buf = << >>
                /\ buf' = buf ]_vars

\* C1 witness: the budget is used up while records are still queued
C1_Witness ==
    pc = "loop" /\ count = 0 /\ Len(out) = reqCount /\ reqCount >= 1 /\ buf # << >>

\* C2: a record of a non-meta-data kind k yields an event iff bit k is set
\* in mEnabled when it is dispatched; with the bit clear it is still decoded
\* into the table (dirty bit set, slot stamped) and consumed, and the budget
\* is not touched.
C2_EnabledGate ==
    [][ (Dispatching /\ Head(buf).tag # CW_META_DATA) =>
            LET k == Head(buf).tag
            IN  /\ IF k \in mEnabled
                   THEN /\ out' = Append(out, mPendingEvents'[k])
                        /\ count' = count - 1
                   ELSE /\ out' = out
                        /\ count' = count
                /\ k \in SampleKinds => k \in mPendingMask'
                /\ mPendingEvents'[k].timestamp = now
                /\ 1 \in DOMAIN mPendingEvents'[k].data ]_vars

\* C2 witness: an accelerometer record was filled, decoded and consumed
\* while the accelerometer was disabled, and no event was written
C2_Witness ==
    /\ pc = "loop" /\ n > 0 /\ buf = << >> /\ out = << >> /\ count = reqCount
    /\ CW_ACCELERATION \notin mEnabled
    /\ CW_ACCELERATION \in mPendingMask
    /\ mPendingEvents[CW_ACCELERATION].timestamp = now

\* C3: once the loop has written a SignificantMotion event, the
\* SignificantMotion bit is no longer in mEnabled.
C3_OneShot ==
    [][ ( /\ Dispatching
          /\ Head(buf).tag = CW_SIGNIFICANT_MOTION
          /\ Len(out') = Len(out) + 1 )
        => CW_SIGNIFICANT_MOTION \notin mEnabled' ]_vars

\* C5: when the loop consumes the meta-data record that answers an accepted
\* flush(h), the flush-complete event it writes names a handle of the
\* sensor id the record carries, the one find_sensor gave for h.
C5_FlushRoundTrip ==
    [][ ( /\ Dispatching
          /\ Head(buf).tag = CW_META_DATA
          /\ \E h \in Handles : find_sensor(h) = Head(buf).data[1] )
        => /\ Len(out') = Len(out) + 1
           /\ \E h \in Handles :
                 /\ find_sensor(h) = Head(buf).data[1]
                 /\ out'[Len(out')].data[2] = I32(h) ]_vars

\* C4: a meta-data record consumed by the loop yields exactly one
\* flush-complete event, whatever mEnabled and mPendingMask hold, and the
\* event names the handle find_handle gives for the record's primary[0].
C4_MetaAlways ==
    [][ (Dispatching /\ Head(buf).tag = CW_META_DATA) =>
            /\ Len(out') = Len(out) + 1
            /\ SubSeq(out', 1, Len(out)) = out
            /\ out'[Len(out')].type = "META_DATA"
            /\ out'[Len(out')].data[1] = I32(META_DATA_FLUSH_COMPLETE)
            /\ out'[Len(out')].data[2] = I32(find_handle(Head(buf).data[1]))
            /\ count' = count - 1 ]_vars

\* C4 witness: a flush-complete event for the accelerometer was written
\* while no sensor was enabled and the meta-data bit was not dirty
C4_Witness ==
    /\ pc = "loop" /\ out # << >>
    /\ LastOut.type = "META_DATA"
    /\ LastOut.data[2] = I32(ID_A)
    /\ mEnabled = {}
    /\ CW_META_DATA \notin mPendingMask

SyncState == << l_timestamp, g_timestamp, syncReqs >>

LastReq == syncReqs[Len(syncReqs)]

\* C6: the dispatch of a SyncAck record whose primary[0] is not the magic
\* value changes neither l_timestamp nor g_timestamp and writes no sync
\* command.
C6_WrongMagicAck ==
    [][ ( /\ Dispatching
          /\ Head(buf).tag = CW_SYNC_ACK
          /\ Head(buf).data[1] # SYNC_ACK_MAGIC )
        => UNCHANGED SyncState ]_vars

\* C6 witness: a SyncAck record without the magic has just been dispatched
\* (none with the magic ever was) while a written request was waiting with a
\* candidate different from the synchronized timestamp
C6_Witness ==
    /\ pc = "loop" /\ buf = << >>
    /\ mPendingEvents[CW_SYNC_ACK].timestamp = now
    /\ acks = 0
    /\ syncReqs # << >>
    /\ l_timestamp # g_timestamp

\* C7 as stated: the k-th SyncAck record with the magic value makes the
\* candidate recorded at the k-th sync request the synchronized timestamp.
C7_AckCommitsItsRequest ==
    [][ ( /\ Dispatching
          /\ IsMagicAck(Head(buf))
          /\ acks < Len(syncReqs) )
        => g_timestamp' = syncReqs[acks + 1] ]_vars

\* C7 amended: a SyncAck record with the magic value makes the current
\* l_timestamp, the candidate of the most recent sync command written, the
\* synchronized timestamp; g_timestamp only ever changes to that candidate,
\* and the candidate only changes when a sync command is written, so that
\* g_timestamp changes at most once per command written.
C7_AckCommitsLatest ==
    [][ /\ (Dispatching /\ IsMagicAck(Head(buf))) =>
              /\ g_timestamp' = l_timestamp
              /\ UNCHANGED << l_timestamp, syncReqs >>
        /\ g_timestamp' # g_timestamp =>
              /\ syncReqs # << >>
              /\ g_timestamp' = LastReq
              /\ UNCHANGED << l_timestamp, syncReqs >>
        /\ l_timestamp' # l_timestamp => syncReqs' = Append(syncReqs, l_timestamp') ]_vars

\* C7 witness: two sync commands with different candidates were written
\* and one SyncAck with the magic was decoded: the second candidate is the
\* synchronized timestamp
C7_Witness ==
    /\ Len(syncReqs) = 2
    /\ syncReqs[1] # syncReqs[2]
    /\ acks = 1
    /\ g_timestamp = syncReqs[2]

\* C8 as stated: the dispatch of a TimeDiffExhausted record with the magic
\* value writes the sync command and sets l_timestamp to the host time.
C8_ExhaustedIssuesRequest ==
    [][ (Dispatching /\ IsMagicExhausted(Head(buf))) =>
            /\ syncReqs' = Append(syncReqs, now)
            /\ l_timestamp' = now ]_vars

\* C8 amended: the dispatch of a TimeDiffExhausted record with the magic
\* value writes the sync command and sets l_timestamp to the host time when
\* the flush attribute can be opened and written, and changes nothing of
\* the sync state when it cannot; with any other primary[0] no command is
\* written and the sync state is unchanged.
C8_ExhaustedTriesRequest ==
    [][ (Dispatching /\ Head(buf).tag = TIME_DIFF_EXHAUSTED) =>
            IF IsMagicExhausted(Head(buf)) /\ sysfs = "ok"
            THEN /\ syncReqs' = Append(syncReqs, now)
                 /\ l_timestamp' = now
                 /\ g_timestamp' = g_timestamp
            ELSE UNCHANGED SyncState ]_vars

\* C8 witness: the last sync command was written by the dispatch of a
\* TimeDiffExhausted record, after an earlier command
C8_Witness ==
    /\ pc = "loop"
    /\ syncBy = "exhausted"
    /\ Len(syncReqs) = 2
    /\ l_timestamp = now
    /\ LastReq = now
    /\ mPendingEvents[TIME_DIFF_EXHAUSTED].timestamp = now

\* C9: g_timestamp changes only in the dispatch of a SyncAck record with
\* the magic value, and a sync command is written only by a batch or
\* sync_timestamp call of the framework or by the dispatch of a
\* TimeDiffExhausted record with the magic value: not by time passing, by
\* another record, by the return of readEvents or by another operation.
C9_NoRetry ==
    [][ /\ g_timestamp' # g_timestamp => (Dispatching /\ IsMagicAck(Head(buf)))
        /\ syncReqs' # syncReqs =>
              \/ Dispatching /\ IsMagicExhausted(Head(buf))
              \/ BatchCall
              \/ SyncTimestamp ]_vars

\* C9 witness: a sync command was written, time has passed, SyncAck records
\* without the magic were dispatched and readEvents has returned, and
\* still no second command was written and g_timestamp is the initial one
C9_Witness ==
    /\ pc = "idle"
    /\ Len(syncReqs) = 1
    /\ now > syncReqs[1]
    /\ acks = 0
    /\ mPendingEvents[CW_SYNC_ACK].timestamp = now
    /\ mPendingEvents[TIME_DIFF_EXHAUSTED].timestamp = now
    /\ g_timestamp = 0

\* C11: a control operation called with a handle of no sensor kind returns
\* -EINVAL, changes no member and writes nothing to the control surface.
C11_InvalidHandleRejected ==
    [][ /\ setEnable_err(ID_INVALID) = 0 - EINVAL
        /\ setDelay_err(ID_INVALID) = 0 - EINVAL
        /\ \A dryRun \in BOOLEAN : batch_err(ID_INVALID, dryRun, 0, sysfs, EIO) = 0 - EINVAL
        /\ flush_err(ID_INVALID, sysfs, EIO) = 0 - EINVAL
        /\ ( \/ \E en \in { 0, 1 } : SetEnable(ID_INVALID, en, TRUE)
             \/ SetDelay(ID_INVALID)
             \/ \E dryRun \in BOOLEAN : Batch(ID_INVALID, dryRun, 0, TRUE, TRUE)
             \/ Flush(ID_INVALID) )
           => UNCHANGED obj ]_vars

\* C12: the dispatch of a record whose tag is no member of SensorKind
\* consumes the record, writes no event and uses no budget, changes no
\* sample field of any slot and nothing outside the table.
C12_UnknownTagIgnored ==
    [][ (Dispatching /\ Head(buf).tag \notin SensorKind) =>
            /\ UNCHANGED << out, count, numEventReceived >>
            /\ \A k \in TableSlots : mPendingEvents'[k].data = mPendingEvents[k].data
            /\ UNCHANGED << mEnabled, mPendingMask, mPendingEventsFlush, l_timestamp,
                            g_timestamp, mFlushSensorEnabled, init_trigger_done,
                            bufferEnable, syncReqs, flushCmds, wild >> ]_vars

\* C13: every event written on the path of the sample records carries the
\* host time read when its record is dispatched, not the device timestamp
\* the record brought.
C13_HostTimestamp ==
    [][ (Dispatching /\ Head(buf).tag # CW_META_DATA /\ out' # out) =>
            /\ out' = Append(out, out'[Len(out')])
            /\ out'[Len(out')].timestamp = now
            /\ out'[Len(out')].timestamp # Head(buf).time ]_vars

\* an event of a sample record is out, stamped with a host time that moved
C13_Witness ==
    /\ pc = "loop"
    /\ out # << >>
    /\ LastOut.sensor = ID_RV
    /\ now > 0
    /\ LastOut.timestamp = now

\* the state after decoding and finalizing the record at the head of the
\* reader: processEvent, then calculate_rv_4th_element
Decoded(self) ==
    calculate_rv_4th_element(processEvent(self, Head(buf), sysfs, now), Head(buf).tag)

\* everything of the object but the table and the dirty mask
Globals(self) ==
    << self.mEnabled, self.mPendingEventsFlush, self.l_timestamp, self.g_timestamp,
       self.mFlushSensorEnabled, self.init_trigger_done, self.bufferEnable,
       self.syncReqs, self.flushCmds, self.wild >>

AtSampleRecord == pc = "loop" /\ buf # << >> /\ Head(buf).tag \in SampleKinds

UnitSquare == (10000 * CONVERT_10000) * (10000 * CONVERT_10000)

\* C15: every emitted event of a rotation vector kind carries the scaled
\* x, y, z of its record and a 4th component derived from them: 0 when
\* x^2 + y^2 + z^2 >= 1, else the non-negative root of 1 - x^2 - y^2 - z^2
\* (to the resolution of the fixed-point values), never a value left by an
\* earlier record.
C15_FourthComponent ==
    [][ (Dispatching /\ Head(buf).tag \in RvKinds /\ out' # out) =>
            LET ev == out'[Len(out')]
                x == ev.data[1][2]
                y == ev.data[2][2]
                z == ev.data[3][2]
                w == ev.data[4]
                sum == x * x + y * y + z * z
            IN  /\ ev.sensor = find_handle(Head(buf).tag)
                /\ \A i \in 1 .. 3 : ev.data[i] = F(Head(buf).data[i] * CONVERT_10000)
                /\ w[1] = "f"
                /\ w[2] >= 0
                /\ sum >= UnitSquare => w[2] = 0
                /\ sum < UnitSquare =>
                       /\ w[2] > 0
                       /\ w[2] * w[2] <= UnitSquare - sum
                       /\ UnitSquare - sum < (w[2] + 1) * (w[2] + 1) ]_vars

\* two rotation vector events are out, the first of a record with
\* x^2 + y^2 + z^2 >= 1 and the second of one with a sum below 1
C15_Witness ==
    /\ Len(out) = 2
    /\ out[1].sensor = ID_RV
    /\ out[1].data[4] = F(0)
    /\ out[2].sensor = ID_RV
    /\ out[2].data[4][2] > 0

\* a thread has written its attribute name into the path buffer and has not
\* finished the write of that attribute
Writing(t) == cpc[t] = "open"

\* C16: at most one thread at a time is between writing the attribute name
\* into the shared path buffer and finishing its attribute write, that
\* thread holds the mutex, and every control write lands on the attribute
\* its own operation selected.
C16_Serialized ==
    /\ \A t, u \in Threads : Writing(t) /\ Writing(u) => t = u
    /\ \A t \in Threads : cpc[t] \in { "path", "open", "unlock" } => sys_fs_mutex = t
    /\ \A t \in Threads : Writing(t) => fixed_sysfs_path = Attrs(cop[t].op)[cop[t].i]
    /\ lastWrite.want = lastWrite.got

\* a thread is about to write its attribute while the two other threads
\* wait for the mutex with operations on other attributes
C16_Witness ==
    /\ Writing("t1")
    /\ cop["t1"].op = "batch"
    /\ cpc["t2"] = "lock"
    /\ cop["t2"].op = "setDelay"
    /\ cpc["dispatch"] = "lock"
    /\ lastWrite.thread = "t2"

\* C17: while the dispatch thread is inside fill it does not hold the mutex.
C17_FillWithoutMutex ==
    pc = "fill" => sys_fs_mutex # "dispatch" /\ cpc["dispatch"] = "idle"

\* the dispatch thread is inside fill, having held the mutex for a sync
\* request of its own before, while another thread holds the mutex
C17_Witness ==
    /\ pc = "fill"
    /\ syncBy = "exhausted"
    /\ sys_fs_mutex = "t1"

\* the lux values of the table, as floats
LuxFloats == { F(luxValues[i] * 10000) : i \in DOMAIN luxValues }

\* values of primary[0] around the table's bounds and at the ends of int16
LightIndices ==
    ((0 - 2 * LIGHTSENSOR_LEVEL) .. (2 * LIGHTSENSOR_LEVEL)) \cup { 32767, 0 - 32768 }

\* the lux the decoder stores for primary[0] = d
Lux(d) == indexToValue(ToSizeT(d))

\* C18: the lux decoded from a Light record is an entry of the table: index
\* 0 gives 0, index 9 gives 2600, an index in 0..9 its entry, every index
\* >= 10 and every negative one the last entry, 2600.
C18_LightLookup ==
    (pc = "loop" /\ buf # << >> /\ Head(buf).tag = CW_LIGHT) =>
        LET d == Head(buf).data[1]
            lux == Decoded(This).mPendingEvents[CW_LIGHT].data[1]
        IN  /\ lux = Lux(d)
            /\ lux \in LuxFloats
            /\ d = 0 => lux = F(0)
            /\ d = 9 => lux = F(2600 * 10000)
            /\ d >= 10 => lux = F(2600 * 10000)
            /\ \A v \in LightIndices :
                   /\ Lux(v) \in LuxFloats
                   /\ v \in 0 .. 9 => Lux(v) = F(luxValues[v + 1] * 10000)
                   /\ v >= 10 \/ v < 0 => Lux(v) = F(2600 * 10000)

\* a Light record with a negative primary[0] is decoded, to 2600
C18_Witness ==
    /\ pc = "loop"
    /\ buf # << >>
    /\ Head(buf).tag = CW_LIGHT
    /\ Head(buf).data[1] < 0
    /\ Decoded(This).mPendingEvents[CW_LIGHT].data[1] = F(2600 * 10000)

\* the 4th component calculate_rv_4th_element derives from a slot's x, y, z
FourthOf(slot) ==
    LET q0 == UnitSquare - slot.data[1][2] * slot.data[1][2]
                         - slot.data[2][2] * slot.data[2][2]
                         - slot.data[3][2] * slot.data[3][2]
    IN  F(IF q0 > 0 THEN Sqrt(q0) ELSE 0)

\* C19: after a record of a rotation vector kind has been consumed, the 4th
\* component stored in the kind's slot is the one derived from the slot's
\* x, y, z, whether or not the kind is enabled.
C19_FinalizedWhenDisabled ==
    [][ (Dispatching /\ Head(buf).tag \in RvKinds) =>
            LET slot == mPendingEvents'[Head(buf).tag]
            IN  slot.data[4] = FourthOf(slot) ]_vars

\* C20: mPendingMask never loses a bit, whatever the operation; decoding a
\* record of a sample kind sets the kind's bit; once hasPendingEvents
\* returns true it returns true ever after.
C20_DirtyMonotone ==
    [][ /\ mPendingMask \subseteq mPendingMask'
        /\ (Dispatching /\ Head(buf).tag \in SampleKinds) => Head(buf).tag \in mPendingMask'
        /\ hasPendingEvents(This) => hasPendingEvents(This)' ]_vars

\* the bit of a decoded and emitted accelerometer sample is still set after
\* the sensor was disabled and a flush and a sync command were written
C20_Witness ==
    /\ pc = "idle"
    /\ ret = 1
    /\ CW_ACCELERATION \in mPendingMask
    /\ hasPendingEvents(This)
    /\ mEnabled = {}
    /\ flushCmds # << >>
    /\ syncReqs # << >>

\* C21: every emitted StepCounter event carries the unsigned 32-bit value
\* formed from primary[0..1] of the StepCounter record just dispatched,
\* whatever a StepDetector record wrote into the slot before.
C21_StepCount ==
    [][ (Dispatching /\ Head(buf).tag = CW_STEP_COUNTER /\ out' # out) =>
            LET ev == out'[Len(out')]
                d == Head(buf).data
            IN  /\ ev.sensor = ID_CW_STEP_COUNTER
                /\ ev.data[1] = U64Lo((d[1] % 65536) + 65536 * (d[2] % 65536))
                /\ ev.data[2] = U64Hi(0) ]_vars

\* a StepCounter event is out whose record followed a StepDetector record
\* that wrote another value into the StepCounter slot
C21_Witness ==
    /\ pc = "loop"
    /\ out # << >>
    /\ LastOut.sensor = ID_CW_STEP_COUNTER
    /\ LastOut.data[1] = U64Lo(5)
    /\ CW_STEP_DETECTOR \in mPendingMask

\* the event is the one a record of this tag stands for
KindMatches(ev, r) ==
    IF r.tag = CW_META_DATA THEN ev.type = "META_DATA"
    ELSE /\ r.tag \in SampleKinds
         /\ ev.sensor = find_handle(r.tag)
         /\ ev.type = SensorType(r.tag)

\* C22: the events written are an order-preserving image of the records
\* consumed: a consumed record appends at most one event, which has the
\* kind of that record (the flush-complete event for a meta-data record),
\* and nothing else appends to, reorders or rewrites the events of a call.
C22_OrderPreserving ==
    [][ /\ Dispatching =>
              \/ out' = out
              \/ /\ out' = Append(out, out'[Len(out')])
                 /\ KindMatches(out'[Len(out')], Head(buf))
        /\ ~Dispatching => (out' = out \/ (pc' = "idle" /\ out' = << >>)) ]_vars

\* C23: whenever setEnable(handle, en) returns 0 for a valid handle, the
\* bit of the handle's kind in mEnabled equals (en != 0) afterwards,
\* whatever the open and the write of the enable attribute did.
C23_EnableApplied ==
    \A h \in CtlHandles, en \in { 0, 1 } :
        setEnable_err(h) = 0 =>
            LET s == setEnable(This, h, en, sysfs, TRUE)
            IN  (find_sensor(h) \in s.mEnabled) <=> (en # 0)

\* C24: with batch(h) called before every setEnable(h, 1) and every write
\* succeeding, the kernel's IIO buffer is enabled whenever mEnabled is not
\* empty.
C24_BufferOnWhenEnabled == mEnabled # {} => bufferEnable

\* C25: mEnabled only ever holds bits of kinds that find_sensor gives for a
\* framework handle, never the bit of meta-data, sync-ack or
\* time-diff-exhausted; the dispatch of a SyncAck or TimeDiffExhausted
\* record writes no event.
C25_MaskOnlyHandleKinds ==
    /\ [](/\ mEnabled \subseteq { find_sensor(h) : h \in Handles }
          /\ mEnabled \cap PseudoKinds = {})
    /\ [][ (Dispatching /\ Head(buf).tag \in { CW_SYNC_ACK, TIME_DIFF_EXHAUSTED }) =>
              UNCHANGED << out, count, numEventReceived >> ]_vars

\* a SyncAck and an exhaustion record have been dispatched without an event
\* while two sensors were enabled
C25_Witness ==
    /\ pc = "loop"
    /\ n = 1
    /\ buf = << >>
    /\ out = << >>
    /\ acks > 0
    /\ syncBy = "exhausted"
    /\ mEnabled = { CW_ACCELERATION, CW_STEP_COUNTER }

C27_FailedSyncKeepsTimestamps ==
    /\ [](LET s == sync_timestamp(This, sysfs, now)
          IN  IF sysfs = "ok"
              THEN sync_timestamp_err(sysfs) = 0 /\ s.l_timestamp = now
              ELSE /\ sync_timestamp_err(sysfs) < 0
                   /\ s.l_timestamp = l_timestamp
                   /\ s.g_timestamp = g_timestamp)
    /\ [][ (Dispatching /\ IsMagicExhausted(Head(buf)) /\ sysfs # "ok")
               => UNCHANGED << l_timestamp, g_timestamp, syncReqs >> ]_vars
    /\ [][ l_timestamp' # l_timestamp
               => sysfs = "ok" /\ l_timestamp' = now /\ syncReqs' = Append(syncReqs, now) ]_vars

\* a TimeDiffExhausted record with the magic value is about to be dispatched
\* while the control surface fails and the host time differs from the candidate
C27_Witness ==
    /\ pc = "loop"
    /\ LoopCondition(count, buf)
    /\ IsMagicExhausted(Head(buf))
    /\ sysfs # "ok"
    /\ now # l_timestamp

\* C10: when fill returns a negative code, readEvents returns that code and
\* nothing else happens: no event is written, no record is consumed, and
\* the table, the masks and the sync state stay as they were.
C10_FillError ==
    [][ (pc = "fill" /\ pc' # "fill" /\ n' < 0) =>
            /\ pc' = "idle"
            /\ ret' = n'
            /\ out' = << >> /\ out = << >>
            /\ buf' = buf
            /\ UNCHANGED obj ]_vars

\* C10 witness: readEvents returned fill's error with records still queued
C10_Witness ==
    pc = "idle" /\ n < 0 /\ ret = n /\ buf # << >> /\ mPendingMask # {}

====
